---- MODULE Spec2Model ----
(***************************************************************************)
(* The SignUpForm component (three controlled inputs, three message        *)
(* regions, validateForm and handleSubmit) driven through the              *)
(* SignUpFormCOM facade (fillForm, submit) with a mock onSubmit.           *)
(*                                                                         *)
(* Strings are TLA+ strings: Len is the JavaScript length and \o is        *)
(* concatenation.  A Partial<SignUpData> (the errors object, the argument  *)
(* of fillForm) is a function whose domain is the set of keys present.     *)
(***************************************************************************)
EXTENDS Integers, Sequences, FiniteSets, TLC

VARIABLES
    email,               \* useState("") of SignUpForm
    emailMsg,
    password,
    passwordMsg,
    confirmPassword,
    confirmPasswordMsg,
    calls,               \* the arguments of every invocation of the mock onSubmit, in order
    errors,              \* the object validateForm returned to the most recent handleSubmit
    fired,               \* how many times the most recent operation invoked onSubmit
    lastOp,              \* the operation that produced this state
    result,              \* what that operation gave back to its caller
    before,              \* the messages displayed, and the invocations made, before that operation
    again,               \* that operation was a submit made right after a submit
    typed,               \* per field, all the strings typed into it so far, in order
    validSubmits,        \* how many submits were made while the fields were valid
    blank                \* the fields that operation was given as the empty string

vars == <<email, emailMsg, password, passwordMsg, confirmPassword,
          confirmPasswordMsg, calls, errors, fired, lastOp,
          result, before, again, typed, validSubmits, blank>>

(***************************************************************************)
(* Bounds                                                                  *)
(***************************************************************************)
\* longest content a control may hold after a fillForm
MaxLen == 16
\* most invocations of onSubmit recorded by the mock
MaxCalls == 2
\* longest field value the validator is applied to directly
MaxInputLen == 9
\* longest content a control may hold when it is typed key by key
MaxKeyLen == 9

(***************************************************************************)
(* Data                                                                    *)
(***************************************************************************)
FieldNames == {"email", "password", "confirmPassword"}

\* the fixed message literals
EmailRequired == "Email is required"
PasswordLength == "Password must be at least 8 characters"
PasswordRequired == "Password is required"
ConfirmPasswordRequired == "You must confirm your password"
PasswordsDoNotMatch == "Passwords do not match"

\* the minimum password length
MinPasswordLength == 8

\* an object with no keys: const errors: Partial<SignUpData> = {}
EmptyObject == [k \in {} |-> ""]

\* obj[k] = v on an object
SetKey(obj, k, v) == [x \in (DOMAIN obj) \cup {k} |-> IF x = k THEN v ELSE obj[x]]

\* obj[k] ?? ""
OrEmpty(obj, k) == IF k \in DOMAIN obj THEN obj[k] ELSE ""

\* the object literal { email, password, confirmPassword }
SignUpData(e, p, c) == [email |-> e, password |-> p, confirmPassword |-> c]

(***************************************************************************)
(* SignUpForm                                                              *)
(***************************************************************************)
\* validateForm with the length rule written with <= instead of <
validateForm_LengthInclusive(e, p, c) ==
    LET e0 == EmptyObject
        e1 == IF e = "" THEN SetKey(e0, "email", EmailRequired) ELSE e0
        e2 == IF Len(p) <= MinPasswordLength THEN SetKey(e1, "password", PasswordLength) ELSE e1
        e3 == IF p = "" THEN SetKey(e2, "password", PasswordRequired) ELSE e2
        e4 == IF c = "" THEN SetKey(e3, "confirmPassword", ConfirmPasswordRequired) ELSE e3
        e5 == IF p # c THEN SetKey(e4, "confirmPassword", PasswordsDoNotMatch) ELSE e4
    IN  e5

\* validateForm with the two password rules in the other order
validateForm_RequiredBeforeLength(e, p, c) ==
    LET e0 == EmptyObject
        e1 == IF e = "" THEN SetKey(e0, "email", EmailRequired) ELSE e0
        e2 == IF p = "" THEN SetKey(e1, "password", PasswordRequired) ELSE e1
        e3 == IF Len(p) < MinPasswordLength THEN SetKey(e2, "password", PasswordLength) ELSE e2
        e4 == IF c = "" THEN SetKey(e3, "confirmPassword", ConfirmPasswordRequired) ELSE e3
        e5 == IF p # c THEN SetKey(e4, "confirmPassword", PasswordsDoNotMatch) ELSE e4
    IN  e5

\* validateForm comparing the lengths of the two passwords instead of the passwords
validateForm_CompareLengths(e, p, c) ==
    LET e0 == EmptyObject
        e1 == IF e = "" THEN SetKey(e0, "email", EmailRequired) ELSE e0
        e2 == IF Len(p) < MinPasswordLength THEN SetKey(e1, "password", PasswordLength) ELSE e1
        e3 == IF p = "" THEN SetKey(e2, "password", PasswordRequired) ELSE e2
        e4 == IF c = "" THEN SetKey(e3, "confirmPassword", ConfirmPasswordRequired) ELSE e3
        e5 == IF Len(p) # Len(c) THEN SetKey(e4, "confirmPassword", PasswordsDoNotMatch) ELSE e4
    IN  e5

\* validateForm returning at the first failing rule
validateForm_ShortCircuit(e, p, c) ==
    IF p = "" THEN SetKey(EmptyObject, "password", PasswordRequired)
    ELSE IF Len(p) < MinPasswordLength THEN SetKey(EmptyObject, "password", PasswordLength)
    ELSE IF p # c THEN SetKey(EmptyObject, "confirmPassword", PasswordsDoNotMatch)
    ELSE IF c = "" THEN SetKey(EmptyObject, "confirmPassword", ConfirmPasswordRequired)
    ELSE IF e = "" THEN SetKey(EmptyObject, "email", EmailRequired)
    ELSE EmptyObject

\* validateForm without the rule for an empty confirmPassword
validateForm_NoConfirmRequired(e, p, c) ==
    LET e0 == EmptyObject
        e1 == IF e = "" THEN SetKey(e0, "email", EmailRequired) ELSE e0
        e2 == IF Len(p) < MinPasswordLength THEN SetKey(e1, "password", PasswordLength) ELSE e1
        e3 == IF p = "" THEN SetKey(e2, "password", PasswordRequired) ELSE e2
        e5 == IF p # c THEN SetKey(e3, "confirmPassword", PasswordsDoNotMatch) ELSE e3
    IN  e5

\* validateForm adding each message to the one the field already has
validateForm_AppendsMessages(e, p, c) ==
    LET e0 == EmptyObject
        e1 == IF e = "" THEN SetKey(e0, "email", EmailRequired) ELSE e0
        e2 == IF Len(p) < MinPasswordLength THEN SetKey(e1, "password", PasswordLength) ELSE e1
        e3 == IF p = ""
                THEN SetKey(e2, "password", OrEmpty(e2, "password") \o PasswordRequired)
                ELSE e2
        e4 == IF c = "" THEN SetKey(e3, "confirmPassword", ConfirmPasswordRequired) ELSE e3
        e5 == IF p # c
                THEN SetKey(e4, "confirmPassword",
                            OrEmpty(e4, "confirmPassword") \o PasswordsDoNotMatch)
                ELSE e4
    IN  e5

\* validateForm returning as soon as the email rule fails
validateForm_EmailReturnsEarly(e, p, c) ==
    LET e0 == EmptyObject
        e2 == IF Len(p) < MinPasswordLength THEN SetKey(e0, "password", PasswordLength) ELSE e0
        e3 == IF p = "" THEN SetKey(e2, "password", PasswordRequired) ELSE e2
        e4 == IF c = "" THEN SetKey(e3, "confirmPassword", ConfirmPasswordRequired) ELSE e3
        e5 == IF p # c THEN SetKey(e4, "confirmPassword", PasswordsDoNotMatch) ELSE e4
    IN  IF e = "" THEN SetKey(e0, "email", EmailRequired) ELSE e5

\* each statement of validateForm assigns over the result of the one before
validateForm(e, p, c) ==
    LET e0 == EmptyObject
        e1 == IF e = "" THEN SetKey(e0, "email", EmailRequired) ELSE e0
        e2 == IF Len(p) < MinPasswordLength THEN SetKey(e1, "password", PasswordLength) ELSE e1
        e3 == IF p = "" THEN SetKey(e2, "password", PasswordRequired) ELSE e2
        e4 == IF c = "" THEN SetKey(e3, "confirmPassword", ConfirmPasswordRequired) ELSE e3
        e5 == IF p # c THEN SetKey(e4, "confirmPassword", PasswordsDoNotMatch) ELSE e4
    IN  e5

\* Object.keys(errors).length > 0
hasErrors(errs) == Cardinality(DOMAIN errs) > 0

\* the mock onSubmit records its argument
onSubmit(data) == calls' = Append(calls, data)

\* handleSubmit without the early return on errors
handleSubmit_NoEarlyReturn ==
    LET errs == validateForm(email, password, confirmPassword) IN
    /\ errors' = errs
    /\ emailMsg' = OrEmpty(errs, "email")
    /\ passwordMsg' = OrEmpty(errs, "password")
    /\ confirmPasswordMsg' = OrEmpty(errs, "confirmPassword")
    /\ onSubmit(SignUpData(email, password, confirmPassword))
    /\ UNCHANGED <<email, password, confirmPassword>>

\* handleSubmit passing the object of the two-field form: { email, password }
handleSubmit_TwoFields ==
    LET errs == validateForm(email, password, confirmPassword) IN
    /\ errors' = errs
    /\ emailMsg' = OrEmpty(errs, "email")
    /\ passwordMsg' = OrEmpty(errs, "password")
    /\ confirmPasswordMsg' = OrEmpty(errs, "confirmPassword")
    /\ IF hasErrors(errs)
         THEN calls' = calls
         ELSE onSubmit([email |-> email, password |-> password])
    /\ UNCHANGED <<email, password, confirmPassword>>

\* handleSubmit passing emailMsg where email is meant
handleSubmit_PassesMessage ==
    LET errs == validateForm(email, password, confirmPassword) IN
    /\ errors' = errs
    /\ emailMsg' = OrEmpty(errs, "email")
    /\ passwordMsg' = OrEmpty(errs, "password")
    /\ confirmPasswordMsg' = OrEmpty(errs, "confirmPassword")
    /\ IF hasErrors(errs)
         THEN calls' = calls
         ELSE onSubmit(SignUpData(emailMsg, password, confirmPassword))
    /\ UNCHANGED <<email, password, confirmPassword>>

\* handleSubmit that stops calling onSubmit once it has been called
handleSubmit_Latches ==
    LET errs == validateForm(email, password, confirmPassword) IN
    /\ errors' = errs
    /\ emailMsg' = OrEmpty(errs, "email")
    /\ passwordMsg' = OrEmpty(errs, "password")
    /\ confirmPasswordMsg' = OrEmpty(errs, "confirmPassword")
    /\ IF hasErrors(errs) \/ calls # <<>>
         THEN calls' = calls
         ELSE onSubmit(SignUpData(email, password, confirmPassword))
    /\ UNCHANGED <<email, password, confirmPassword>>

\* handleSubmit setting a message only when its field has an error
handleSubmit_KeepsOldMessages ==
    LET errs == validateForm(email, password, confirmPassword) IN
    /\ errors' = errs
    /\ emailMsg' = IF "email" \in DOMAIN errs THEN errs["email"] ELSE emailMsg
    /\ passwordMsg' = IF "password" \in DOMAIN errs THEN errs["password"] ELSE passwordMsg
    /\ confirmPasswordMsg' = IF "confirmPassword" \in DOMAIN errs
                               THEN errs["confirmPassword"]
                               ELSE confirmPasswordMsg
    /\ IF hasErrors(errs)
         THEN calls' = calls
         ELSE onSubmit(SignUpData(email, password, confirmPassword))
    /\ UNCHANGED <<email, password, confirmPassword>>

\* handleSubmit adding each message to the one displayed
handleSubmit_AppendsMessages ==
    LET errs == validateForm(email, password, confirmPassword) IN
    /\ errors' = errs
    /\ emailMsg' = emailMsg \o OrEmpty(errs, "email")
    /\ passwordMsg' = passwordMsg \o OrEmpty(errs, "password")
    /\ confirmPasswordMsg' = confirmPasswordMsg \o OrEmpty(errs, "confirmPassword")
    /\ IF hasErrors(errs)
         THEN calls' = calls
         ELSE onSubmit(SignUpData(email, password, confirmPassword))
    /\ UNCHANGED <<email, password, confirmPassword>>

\* handleSubmit giving the confirmPassword region the password message
handleSubmit_CopyPaste ==
    LET errs == validateForm(email, password, confirmPassword) IN
    /\ errors' = errs
    /\ emailMsg' = OrEmpty(errs, "email")
    /\ passwordMsg' = OrEmpty(errs, "password")
    /\ confirmPasswordMsg' = OrEmpty(errs, "password")
    /\ IF hasErrors(errs)
         THEN calls' = calls
         ELSE onSubmit(SignUpData(email, password, confirmPassword))
    /\ UNCHANGED <<email, password, confirmPassword>>

\* handleSubmit emptying the three fields once onSubmit has been called
handleSubmit_ResetsOnSuccess ==
    LET errs == validateForm(email, password, confirmPassword) IN
    /\ errors' = errs
    /\ emailMsg' = OrEmpty(errs, "email")
    /\ passwordMsg' = OrEmpty(errs, "password")
    /\ confirmPasswordMsg' = OrEmpty(errs, "confirmPassword")
    /\ IF hasErrors(errs)
         THEN /\ calls' = calls
              /\ UNCHANGED <<email, password, confirmPassword>>
         ELSE /\ onSubmit(SignUpData(email, password, confirmPassword))
              /\ email' = ""
              /\ password' = ""
              /\ confirmPassword' = ""

handleSubmit ==
    LET errs == validateForm(email, password, confirmPassword) IN
    /\ errors' = errs
    /\ emailMsg' = OrEmpty(errs, "email")
    /\ passwordMsg' = OrEmpty(errs, "password")
    /\ confirmPasswordMsg' = OrEmpty(errs, "confirmPassword")
    /\ IF hasErrors(errs)
         THEN calls' = calls
         ELSE onSubmit(SignUpData(email, password, confirmPassword))
    /\ UNCHANGED <<email, password, confirmPassword>>

\* onChange that also removes the message of the field being typed
onChange_ClearsMessage(k, value) ==
    /\ email' = IF k = "email" THEN value ELSE email
    /\ password' = IF k = "password" THEN value ELSE password
    /\ confirmPassword' = IF k = "confirmPassword" THEN value ELSE confirmPassword
    /\ emailMsg' = IF k = "email" THEN "" ELSE emailMsg
    /\ passwordMsg' = IF k = "password" THEN "" ELSE passwordMsg
    /\ confirmPasswordMsg' = IF k = "confirmPassword" THEN "" ELSE confirmPasswordMsg
    /\ UNCHANGED <<calls, errors>>

\* the onChange of the control of field k: setEmail(e.target.value),
\* setPassword(e.target.value) or setConfirmPassword(e.target.value)
onChange(k, value) ==
    /\ email' = IF k = "email" THEN value ELSE email
    /\ password' = IF k = "password" THEN value ELSE password
    /\ confirmPassword' = IF k = "confirmPassword" THEN value ELSE confirmPassword
    /\ UNCHANGED <<emailMsg, passwordMsg, confirmPasswordMsg, calls, errors>>

\* the elements of the rendered form that hold text of their own
Elements ==
    {"p.emailMsg", "label.email", "p.passwordMsg", "label.password",
     "p.confirmPasswordMsg", "label.confirmPassword", "button.submit"}

\* the text each of them shows
textContent(el) ==
    CASE el = "p.emailMsg" -> emailMsg
      [] el = "label.email" -> "Email:"
      [] el = "p.passwordMsg" -> passwordMsg
      [] el = "label.password" -> "Password:"
      [] el = "p.confirmPasswordMsg" -> confirmPasswordMsg
      [] el = "label.confirmPassword" -> "Confirm Password:"
      [] el = "button.submit" -> "Submit"

(***************************************************************************)
(* SignUpFormCOM                                                           *)
(***************************************************************************)
\* type putting the keystrokes in front of the control's content
type_Prepends(value, text) == text \o value

\* type replacing the control's content with the keystrokes
type_Overwrites(value, text) == text

\* userEvent.type(input, text): the keystrokes of text go to the end of the
\* control's content, each one reaching the control's onChange (setEmail,
\* setPassword, setConfirmPassword with e.target.value)
type(value, text) == value \o text

\* if (x) ... : the key is present and its string is not empty
Truthy(data, k) == k \in DOMAIN data /\ data[k] # ""

\* fillForm clearing each control before typing into it
fillForm_ClearsFirst(data) ==
    /\ email' = IF Truthy(data, "email") THEN type("", data["email"]) ELSE email
    /\ password' = IF Truthy(data, "password") THEN type("", data["password"]) ELSE password
    /\ confirmPassword' = IF Truthy(data, "confirmPassword")
                            THEN type("", data["confirmPassword"])
                            ELSE confirmPassword
    /\ UNCHANGED <<emailMsg, passwordMsg, confirmPasswordMsg, calls, errors>>

\* fillForm testing for undefined, and emptying a control given the empty string
fillForm_EmptyClears(data) ==
    /\ email' = IF "email" \in DOMAIN data
                  THEN (IF data["email"] = "" THEN "" ELSE type(email, data["email"]))
                  ELSE email
    /\ password' = IF "password" \in DOMAIN data
                     THEN (IF data["password"] = "" THEN "" ELSE type(password, data["password"]))
                     ELSE password
    /\ confirmPassword' = IF "confirmPassword" \in DOMAIN data
                            THEN (IF data["confirmPassword"] = ""
                                    THEN ""
                                    ELSE type(confirmPassword, data["confirmPassword"]))
                            ELSE confirmPassword
    /\ UNCHANGED <<emailMsg, passwordMsg, confirmPasswordMsg, calls, errors>>

fillForm(data) ==
    /\ email' = IF Truthy(data, "email") THEN type(email, data["email"]) ELSE email
    /\ password' = IF Truthy(data, "password") THEN type(password, data["password"]) ELSE password
    /\ confirmPassword' = IF Truthy(data, "confirmPassword")
                            THEN type(confirmPassword, data["confirmPassword"])
                            ELSE confirmPassword
    /\ UNCHANGED <<emailMsg, passwordMsg, confirmPasswordMsg, calls, errors>>

\* userEvent.click(submitButton) submits the form
submit == handleSubmit

\* what a call gives back: an element, an error thrown, or nothing
Returned(el) == [kind |-> "element", element |-> el]
Thrown == [kind |-> "error", element |-> "none"]
Nothing == [kind |-> "undefined", element |-> "none"]

\* utils.getByText(text): the one element showing exactly text; an error
\* when no element or more than one element shows it
getByText(text) ==
    LET matches == {el \in Elements : textContent(el) = text} IN
    IF Cardinality(matches) = 1
      THEN Returned(CHOOSE el \in matches : TRUE)
      ELSE Thrown

getValidationMessage(errorMessage) == getByText(errorMessage)

getEmailRequiredMessage == getValidationMessage(EmailRequired)

getPasswordLengthMessage == getValidationMessage(PasswordLength)

\* getPasswordRequiredMessage looking for the literal of the length rule
getPasswordRequiredMessage_LengthLiteral == getValidationMessage(PasswordLength)

getPasswordRequiredMessage == getValidationMessage(PasswordRequired)

getConfirmPasswordRequiredMessage == getValidationMessage(ConfirmPasswordRequired)

getPasswordsDoNotMatchMessage == getValidationMessage(PasswordsDoNotMatch)

(***************************************************************************)
(* The driver: the strings the test-suite types, and the state machine     *)
(***************************************************************************)
EmailTexts == {"", "fred@example.com"}
PasswordTexts == {"", "short", "password", "password1", "password2"}

TextsOf(k) == IF k = "email" THEN EmailTexts ELSE PasswordTexts

\* the key pressed when a control is typed key by key
Keys == {"1"}

\* the accessors of the facade
Accessors ==
    {"getEmailRequiredMessage", "getPasswordLengthMessage", "getPasswordRequiredMessage",
     "getConfirmPasswordRequiredMessage", "getPasswordsDoNotMatchMessage"}

CallAccessor(name) ==
    CASE name = "getEmailRequiredMessage" -> getEmailRequiredMessage
      [] name = "getPasswordLengthMessage" -> getPasswordLengthMessage
      [] name = "getPasswordRequiredMessage" -> getPasswordRequiredMessage
      [] name = "getConfirmPasswordRequiredMessage" -> getConfirmPasswordRequiredMessage
      [] name = "getPasswordsDoNotMatchMessage" -> getPasswordsDoNotMatchMessage

\* the three conditions under which the form is valid
ValidFields(e, p, c) == e # "" /\ Len(p) >= 8 /\ c = p

\* the three messages an operation finds displayed
Displayed ==
    [email |-> emailMsg, password |-> passwordMsg, confirmPassword |-> confirmPasswordMsg]

\* the three field values
Fields == SignUpData(email, password, confirmPassword)

\* what an operation finds: the messages displayed and how many times the
\* operation before it invoked onSubmit
Found == [messages |-> Displayed, fired |-> fired]

NoTyping == [k \in FieldNames |-> ""]

\* the Partial<SignUpData> arguments given to fillForm
FillInputs ==
    { d \in UNION { [S -> EmailTexts \cup PasswordTexts] : S \in SUBSET FieldNames } :
        \A k \in DOMAIN d : d[k] \in TextsOf(k) }

Init ==
    /\ email = ""
    /\ emailMsg = ""
    /\ password = ""
    /\ passwordMsg = ""
    /\ confirmPassword = ""
    /\ confirmPasswordMsg = ""
    /\ calls = <<>>
    /\ errors = EmptyObject
    /\ fired = 0
    /\ lastOp = "init"
    /\ result = Nothing
    /\ before = Found
    /\ again = FALSE
    /\ typed = NoTyping
    /\ validSubmits = 0
    /\ blank = {}

\* an accessor is the last thing a test calls
Running == lastOp \notin Accessors

FillForm ==
    \E data \in FillInputs :
        /\ Running
        /\ fillForm(data)
        /\ Len(email') <= MaxLen
        /\ Len(password') <= MaxLen
        /\ Len(confirmPassword') <= MaxLen
        /\ fired' = 0
        /\ lastOp' = "fillForm"
        /\ result' = Nothing
        /\ before' = Found
        /\ again' = FALSE
        /\ typed' = [k \in FieldNames |->
                        typed[k] \o (IF k \in DOMAIN data THEN data[k] ELSE "")]
        /\ blank' = {k \in DOMAIN data : data[k] = ""}
        /\ UNCHANGED validSubmits

Submit ==
    /\ Running
    /\ Len(calls) < MaxCalls
    /\ submit
    /\ fired' = Len(calls') - Len(calls)
    /\ lastOp' = "submit"
    /\ result' = Nothing
    /\ before' = Found
    /\ again' = (lastOp = "submit")
    /\ validSubmits' = IF ValidFields(email, password, confirmPassword)
                         THEN validSubmits + 1
                         ELSE validSubmits
    /\ blank' = {}
    /\ UNCHANGED typed

\* one accessor called
Get ==
    \E name \in Accessors :
        /\ Running
        /\ result' = CallAccessor(name)
        /\ fired' = 0
        /\ lastOp' = name
        /\ before' = Found
        /\ again' = FALSE
        /\ blank' = {}
        /\ UNCHANGED <<email, emailMsg, password, passwordMsg, confirmPassword,
                       confirmPasswordMsg, calls, errors, typed, validSubmits>>

Next == FillForm \/ Submit \/ Get

Spec == Init /\ [][Next]_vars

(***************************************************************************)
(* The validator applied directly: the field values are drawn from every   *)
(* length from 0 to MaxInputLen, in two spellings per length, typed into a *)
(* form that has not been submitted yet; the only operation is submit.     *)
(***************************************************************************)
RECURSIVE Repeat(_, _)
Repeat(ch, n) == IF n = 0 THEN "" ELSE Repeat(ch, n - 1) \o ch

InputStrings ==
    {Repeat("a", n) : n \in 0..MaxInputLen}
        \cup {Repeat("a", n - 1) \o "b" : n \in 1..MaxInputLen}

InitValidate ==
    /\ email \in {"", "a"}
    /\ password \in InputStrings
    /\ confirmPassword \in InputStrings
    /\ emailMsg = ""
    /\ passwordMsg = ""
    /\ confirmPasswordMsg = ""
    /\ calls = <<>>
    /\ errors = EmptyObject
    /\ fired = 0
    /\ lastOp = "init"
    /\ result = Nothing
    /\ before = Found
    /\ again = FALSE
    /\ typed = Fields
    /\ validSubmits = 0
    /\ blank = {}

NextValidate == Submit

SpecValidate == InitValidate /\ [][NextValidate]_vars

(***************************************************************************)
(* The form typed key by key: every input event is one key at the end of   *)
(* one control, and the form is submitted between keys.                    *)
(***************************************************************************)
Keystroke ==
    \E k \in FieldNames, ch \in Keys :
        /\ Len(Fields[k]) < MaxKeyLen
        /\ onChange(k, Fields[k] \o ch)
        /\ fired' = 0
        /\ lastOp' = "keystroke"
        /\ result' = Nothing
        /\ before' = Found
        /\ again' = FALSE
        /\ typed' = [typed EXCEPT ![k] = @ \o ch]
        /\ blank' = {}
        /\ UNCHANGED validSubmits

NextKeys == Keystroke \/ Submit

SpecKeys == Init /\ [][NextKeys]_vars

(***************************************************************************)
(* Properties                                                              *)
(***************************************************************************)
\* the argument of the most recent invocation of onSubmit
LastCall == calls[Len(calls)]

\* C1: a submit invokes onSubmit if and only if validateForm yields no error
\* for the field values at that submit; with an error on at least one field
\* the submit does not invoke it.
C1_CallbackIffNoErrors ==
    lastOp = "submit" =>
        /\ fired \in {0, 1}
        /\ fired = 1 <=> validateForm(email, password, confirmPassword) = EmptyObject
        /\ errors = validateForm(email, password, confirmPassword)
        /\ (\E k \in FieldNames : k \in DOMAIN errors) => fired = 0

\* an invalid submit made after a valid one: the callback stays at one invocation
C1_Witness ==
    /\ lastOp = "submit"
    /\ fired = 0
    /\ Len(calls) = 1
    /\ DOMAIN errors # {}

\* C2: with a non-empty email, a password of length >= 8 and confirmPassword
\* equal to password, a submit yields no error and invokes onSubmit exactly
\* once, with exactly { email, password, confirmPassword }.
C2_ValidSubmitCallsOnce ==
    (lastOp = "submit" /\ ValidFields(email, password, confirmPassword)) =>
        /\ errors = EmptyObject
        /\ emailMsg = "" /\ passwordMsg = "" /\ confirmPasswordMsg = ""
        /\ fired = 1
        /\ DOMAIN LastCall = FieldNames
        /\ LastCall["email"] = email
        /\ LastCall["password"] = password
        /\ LastCall["confirmPassword"] = confirmPassword

\* the scenario of the test-suite
C2_Witness ==
    /\ lastOp = "submit"
    /\ email = "fred@example.com"
    /\ password = "password"
    /\ confirmPassword = "password"
    /\ fired = 1
    /\ calls = <<SignUpData("fred@example.com", "password", "password")>>

\* C3: with an empty confirmPassword, whatever the password, validateForm
\* yields "You must confirm your password" for confirmPassword and never
\* "Passwords do not match".
C3_EmptyConfirmIsRequired ==
    (lastOp = "submit" /\ confirmPassword = "") =>
        /\ "confirmPassword" \in DOMAIN errors
        /\ errors["confirmPassword"] = ConfirmPasswordRequired
        /\ errors["confirmPassword"] # PasswordsDoNotMatch

\* C4: after a fill of only a password of length 1 to 7 and a submit, the
\* password region shows the length message and the confirmPassword region
\* shows "You must confirm your password".
C4_ShortPasswordOnly ==
    (/\ lastOp = "submit"
     /\ email = ""
     /\ confirmPassword = ""
     /\ Len(password) \in 1..7) =>
        /\ passwordMsg = PasswordLength
        /\ confirmPasswordMsg = ConfirmPasswordRequired

\* C5: with an empty password validateForm yields "Password is required" for
\* password and not the length message.
C5_EmptyPasswordIsRequired ==
    (lastOp = "submit" /\ password = "") =>
        /\ "password" \in DOMAIN errors
        /\ errors["password"] = PasswordRequired
        /\ errors["password"] # PasswordLength
        /\ passwordMsg = PasswordRequired

\* an empty password next to a non-empty confirmPassword
C5_Witness ==
    /\ lastOp = "submit"
    /\ password = ""
    /\ confirmPassword # ""
    /\ passwordMsg = PasswordRequired

\* C6: with a non-empty confirmPassword that differs from password, a submit
\* shows "Passwords do not match" for confirmPassword and does not invoke
\* onSubmit.
C6_MismatchShown ==
    (lastOp = "submit" /\ confirmPassword # "" /\ confirmPassword # password) =>
        /\ confirmPasswordMsg = PasswordsDoNotMatch
        /\ fired = 0

\* the scenario of the test-suite: two passwords of one length
C6_Witness ==
    /\ lastOp = "submit"
    /\ password = "password1"
    /\ confirmPassword = "password2"
    /\ confirmPasswordMsg = PasswordsDoNotMatch
    /\ calls = <<>>

\* C7: a password of length 1 to 7 yields "Password must be at least 8
\* characters" for password; a password of length exactly 8 yields no
\* password error.
C7_LengthRule ==
    lastOp = "submit" =>
        /\ Len(password) \in 1..7 =>
              /\ "password" \in DOMAIN errors
              /\ errors["password"] = PasswordLength
        /\ Len(password) = 8 => "password" \notin DOMAIN errors

\* the longest password that is too short
C7_Witness ==
    /\ lastOp = "submit"
    /\ Len(password) = 7
    /\ passwordMsg = PasswordLength

\* C8: with an empty email validateForm yields "Email is required" for email,
\* whatever password and confirmPassword are.
C8_EmptyEmailIsRequired ==
    (lastOp = "submit" /\ email = "") =>
        /\ "email" \in DOMAIN errors
        /\ errors["email"] = EmailRequired
        /\ emailMsg = EmailRequired

\* an empty email next to two passwords that pass their rules
C8_Witness ==
    /\ lastOp = "submit"
    /\ email = ""
    /\ Len(password) >= 8
    /\ confirmPassword = password
    /\ DOMAIN errors = {"email"}

\* C9: a new form has three empty fields, three empty message regions and an
\* onSubmit that was never called; submitted with nothing filled in it shows
\* the three required messages together and onSubmit is still never called.
C9_PristineAndEmptySubmit ==
    /\ lastOp = "init" =>
          /\ email = "" /\ password = "" /\ confirmPassword = ""
          /\ emailMsg = "" /\ passwordMsg = "" /\ confirmPasswordMsg = ""
          /\ calls = <<>>
    /\ (lastOp = "submit" /\ email = "" /\ password = "" /\ confirmPassword = "") =>
          /\ emailMsg = EmailRequired
          /\ passwordMsg = PasswordRequired
          /\ confirmPasswordMsg = ConfirmPasswordRequired
          /\ fired = 0
          /\ calls = <<>>

\* the empty form, submitted
C9_Witness ==
    /\ lastOp = "submit"
    /\ email = "" /\ password = "" /\ confirmPassword = ""
    /\ emailMsg = EmailRequired
    /\ calls = <<>>

\* C10: what onSubmit receives is the form's email, password and
\* confirmPassword as validated in that submit.
C10_CallbackGetsValidatedValues ==
    (lastOp = "submit" /\ fired > 0) =>
        /\ LastCall = SignUpData(email, password, confirmPassword)
        /\ ValidFields(LastCall["email"], LastCall["password"], LastCall["confirmPassword"])
        /\ errors = EmptyObject

\* a second valid submit, made after more typing, receives the longer values
C10_Witness ==
    /\ lastOp = "submit"
    /\ fired = 1
    /\ Len(calls) = 2
    /\ calls[1] # calls[2]
    /\ calls[2] = SignUpData(email, password, confirmPassword)

\* no message displayed
NoMessages == [k \in FieldNames |-> ""]

\* C11: onSubmit is invoked exactly once per submit made while the fields are
\* valid; a valid submit does not latch the form: each later submit fires
\* again or shows errors according to the field values it finds.
C11_OncePerValidSubmit ==
    /\ Len(calls) = validSubmits
    /\ lastOp = "submit" =>
          IF ValidFields(email, password, confirmPassword)
            THEN fired = 1 /\ Displayed = NoMessages
            ELSE fired = 0 /\ Displayed # NoMessages

\* a valid submit repeated at once fires a second time
C11_Witness ==
    /\ lastOp = "submit"
    /\ again
    /\ fired = 1
    /\ validSubmits = 2
    /\ calls[1] = calls[2]

\* C12: after a submit the three displayed messages are exactly those
\* validateForm yields for the field values of that submit; a message of an
\* earlier attempt whose field no longer fails is gone, and a successful
\* submit leaves no message.
C12_MessagesRecomputed ==
    lastOp = "submit" =>
        /\ \A k \in FieldNames :
              Displayed[k] = OrEmpty(validateForm(email, password, confirmPassword), k)
        /\ fired = 1 => Displayed = NoMessages

\* a successful submit removes the three messages of the attempt before it
C12_Witness ==
    /\ lastOp = "submit"
    /\ fired = 1
    /\ before.messages["email"] = EmailRequired
    /\ before.messages["password"] # ""
    /\ before.messages["confirmPassword"] # ""
    /\ Displayed = NoMessages

\* C13: a submit made right after a submit of invalid fields, the fields
\* unchanged, displays the same messages again, and neither of the two
\* invokes onSubmit.
C13_InvalidSubmitIdempotent ==
    (lastOp = "submit" /\ again /\ ~ValidFields(email, password, confirmPassword)) =>
        /\ Displayed = before.messages
        /\ Displayed # NoMessages
        /\ before.fired = 0
        /\ fired = 0

\* the second of two submits of a short password with another confirmation
C13_Witness ==
    /\ lastOp = "submit"
    /\ again
    /\ passwordMsg = PasswordLength
    /\ confirmPasswordMsg = PasswordsDoNotMatch
    /\ before.messages["password"] = PasswordLength
    /\ calls = <<>>

\* every displayed message names a rule that the current value of its field fails
MessagesJustified ==
    /\ emailMsg # "" => (emailMsg = EmailRequired /\ email = "")
    /\ passwordMsg # "" =>
          \/ passwordMsg = PasswordRequired /\ password = ""
          \/ passwordMsg = PasswordLength /\ Len(password) \in 1..7
    /\ confirmPasswordMsg # "" =>
          \/ confirmPasswordMsg = ConfirmPasswordRequired /\ confirmPassword = ""
          \/ confirmPasswordMsg = PasswordsDoNotMatch /\ confirmPassword # password

\* C14: in every reachable state a non-empty message region belongs to a
\* field whose current value fails the rule the message names.
C14_MessageOnlyWhileFailing == MessagesJustified

\* C14, amended: in every state reached by a submit a non-empty message
\* region belongs to a field whose value fails the rule the message names.
C14_MessageOnlyForFailureAtSubmit == lastOp = "submit" => MessagesJustified

\* a submit after the email was filled in: its message is gone, the password's stays
C14_Witness ==
    /\ lastOp = "submit"
    /\ before.messages["email"] = EmailRequired
    /\ email # ""
    /\ emailMsg = ""
    /\ passwordMsg = PasswordLength

\* C15: fillForm appends the given string to each field present in its
\* argument and leaves every other field as it is; it changes no displayed
\* message and does not invoke onSubmit.
C15_FillFormFrame ==
    [][lastOp' = "fillForm" =>
          /\ \A k \in FieldNames :
                \E t \in TextsOf(k) :
                    /\ typed'[k] = typed[k] \o t
                    /\ Fields'[k] = Fields[k] \o t
          /\ Displayed' = Displayed
          /\ calls' = calls
          /\ fired' = 0]_vars

\* a fill after a failed submit: "short" went after the "short" already in
\* the password control, the other controls and the message staying as they were
C15_Witness ==
    /\ lastOp = "fillForm"
    /\ password = "shortshort"
    /\ email = ""
    /\ confirmPassword = ""
    /\ passwordMsg = PasswordLength
    /\ before.messages["password"] = PasswordLength

\* C16: with every fillForm completed before submit is issued, the values a
\* submit validates, and hands to onSubmit when they are valid, are for each
\* field all the strings typed into it before, joined in the order typed.
C16_SubmitSeesAllFills ==
    lastOp = "submit" =>
        /\ \A k \in FieldNames : Fields[k] = typed[k]
        /\ errors = validateForm(typed["email"], typed["password"], typed["confirmPassword"])
        /\ fired = 1 => \A k \in FieldNames : LastCall[k] = typed[k]

\* the two passwords typed in two fills each, then submitted
C16_Witness ==
    /\ lastOp = "submit"
    /\ fired = 1
    /\ typed["password"] = "shortpassword"
    /\ LastCall = SignUpData("fred@example.com", "shortpassword", "shortpassword")

\* the literal each accessor stands for
LiteralOf(name) ==
    CASE name = "getEmailRequiredMessage" -> "Email is required"
      [] name = "getPasswordLengthMessage" -> "Password must be at least 8 characters"
      [] name = "getPasswordRequiredMessage" -> "Password is required"
      [] name = "getConfirmPasswordRequiredMessage" -> "You must confirm your password"
      [] name = "getPasswordsDoNotMatchMessage" -> "Passwords do not match"

\* the regions that display text
Showing(text) ==
    {r \in {"p.emailMsg", "p.passwordMsg", "p.confirmPasswordMsg"} :
        \/ r = "p.emailMsg" /\ emailMsg = text
        \/ r = "p.passwordMsg" /\ passwordMsg = text
        \/ r = "p.confirmPasswordMsg" /\ confirmPasswordMsg = text}

\* C17: an accessor returns the element displaying its literal when the
\* literal is displayed and throws when it is not; either way the field
\* values, the displayed messages and the invocations of onSubmit stay as
\* they were.
C17_AccessorsReadOnly ==
    [][lastOp' \in Accessors =>
          /\ IF Showing(LiteralOf(lastOp')) # {}
               THEN /\ result'.kind = "element"
                    /\ result'.element \in Showing(LiteralOf(lastOp'))
               ELSE result'.kind = "error"
          /\ Fields' = Fields
          /\ Displayed' = Displayed
          /\ calls' = calls
          /\ fired' = 0]_vars

\* the accessor of the mismatch message finds it in the confirmPassword region
C17_Witness ==
    /\ lastOp = "getPasswordsDoNotMatchMessage"
    /\ result = Returned("p.confirmPasswordMsg")
    /\ password = "password1"
    /\ confirmPassword = "password2"

\* C18: each message region is empty or shows one literal of its own field.
C18_RegionsShowFixedLiterals ==
    /\ emailMsg \in {"", "Email is required"}
    /\ passwordMsg \in {"", "Password is required", "Password must be at least 8 characters"}
    /\ confirmPasswordMsg \in {"", "You must confirm your password", "Passwords do not match"}

\* the three regions showing a literal each
C18_Witness ==
    /\ emailMsg = "Email is required"
    /\ passwordMsg = "Password must be at least 8 characters"
    /\ confirmPasswordMsg = "Passwords do not match"

\* C19: one validateForm call reports every field that fails a rule; the
\* email entry depends on email alone and the password entry on password
\* alone.
C19_RulesIndependent ==
    lastOp = "submit" =>
        /\ OrEmpty(errors, "email") = (IF email = "" THEN EmailRequired ELSE "")
        /\ OrEmpty(errors, "password") =
              (IF password = "" THEN PasswordRequired
               ELSE IF Len(password) < 8 THEN PasswordLength
               ELSE "")
        /\ "confirmPassword" \in DOMAIN errors <=>
              (confirmPassword = "" \/ confirmPassword # password)
        /\ \A k \in DOMAIN errors : errors[k] # ""

\* the three fields failing in one call
C19_Witness ==
    /\ lastOp = "submit"
    /\ DOMAIN errors = FieldNames
    /\ errors["password"] = PasswordLength
    /\ errors["confirmPassword"] = PasswordsDoNotMatch

\* C20: a keystroke into one control changes the value of that field only:
\* the two other values, the three displayed messages and the invocations
\* of onSubmit stay as they were.
C20_KeystrokeFrame ==
    [][lastOp' = "keystroke" =>
          /\ \E k \in FieldNames :
                /\ \E ch \in Keys : Fields'[k] = Fields[k] \o ch
                /\ \A j \in FieldNames \ {k} : Fields'[j] = Fields[j]
          /\ Displayed' = Displayed
          /\ calls' = calls
          /\ errors' = errors
          /\ fired' = 0]_vars

\* a key typed into the email control after a failed submit: the message stays
C20_Witness ==
    /\ lastOp = "keystroke"
    /\ email = "1"
    /\ emailMsg = EmailRequired
    /\ before.messages["email"] = EmailRequired

\* C21: a submit, valid or invalid, leaves the three field values as they
\* were (the form is not emptied after onSubmit was called) and gives
\* nothing back to its caller: it raises nothing when validation fails.
C21_SubmitKeepsFields ==
    [][lastOp' = "submit" =>
          /\ Fields' = Fields
          /\ typed' = typed
          /\ result' = Nothing]_vars

\* a valid submit made: the values handed to onSubmit are still in the controls
C21_Witness ==
    /\ lastOp = "submit"
    /\ fired = 1
    /\ result = Nothing
    /\ Fields = SignUpData("fred@example.com", "password1", "password1")
    /\ Fields = LastCall

\* C22: a field given to fillForm as the empty string is treated as a field
\* left out: its control receives no keystroke and keeps its content, and
\* the whole call does what the call without that field does.
C22_EmptyStringIsAbsent ==
    [][(lastOp' = "fillForm" /\ blank' # {}) =>
          /\ \A k \in blank' :
                /\ Fields'[k] = Fields[k]
                /\ typed'[k] = typed[k]
          /\ \E d \in FillInputs :
                /\ DOMAIN d \cap blank' = {}
                /\ fillForm(d)]_vars

\* fillForm({ email: "fred@example.com", password: "" }) on a form whose
\* password control holds "short"
C22_Witness ==
    /\ lastOp = "fillForm"
    /\ blank = {"password"}
    /\ password = "short"
    /\ typed["password"] = "short"
    /\ email = "fred@example.com"
    /\ confirmPassword = ""

\* a is the beginning of b
IsPrefix(a, b) == a = "" \/ (Len(a) <= Len(b) /\ SubSeq(b, 1, Len(a)) = a)

\* C23: no operation of the facade clears or shortens a field: every step
\* leaves each field with its earlier value as a prefix, so the values
\* handed to onSubmit earlier are prefixes of the values held later.
C23_FieldsOnlyGrow ==
    /\ [][\A k \in FieldNames : IsPrefix(Fields[k], Fields'[k])]_vars
    /\ [](\A i \in 1..Len(calls) : \A k \in FieldNames :
              /\ IsPrefix(calls[i][k], Fields[k])
              /\ \A j \in i..Len(calls) : IsPrefix(calls[i][k], calls[j][k]))

\* fills and submits in turn: the passwords submitted first begin the longer
\* ones submitted second and still held
C23_Witness ==
    /\ lastOp = "submit"
    /\ Len(calls) = 2
    /\ calls[1]["password"] = "password"
    /\ calls[2]["password"] = "passwordshort"
    /\ password = "passwordshort"
    /\ email = "fred@example.com"

====
